---- MODULE Spec2Model ----
(***************************************************************************)
(* Model of the rock-paper-scissors-lizard-spock hand-sign detector:       *)
(*   - the temporal stabilizer  stableGesture  of HandDetector.tsx         *)
(*     (src/unnamed/part_001, the same code as src/unnamed/part_000);      *)
(*   - the rule-based classifier  classifySign  of classifySign.ts, and    *)
(*     the newer copy of it that DEPLOYMENT.md carries.                    *)
(*                                                                         *)
(* Distances are kept in hundredths of the hand scale (0.28 is 28) and     *)
(* every comparison of the source is made exactly, by cross-multiplying;   *)
(* floating-point rounding is not modelled.                                *)
(***************************************************************************)
EXTENDS Integers, Sequences, FiniteSets

VARIABLES
    cap,        \* the parameter n of stableGesture
    buffer,     \* bufferRef.current
    gesture,    \* the React state `gesture`: what the last push returned
    pushed,     \* history variable of SpecStab: every raw label pushed so
                \* far, in order (the other specifications leave it empty)
    m,          \* the measurements of the frame classifySign was last given
    label,      \* the label classifySign.ts returned for m ("" before any)
    labelDoc,   \* the label the copy in DEPLOYMENT.md returns for m
    landmarks0, \* SpecLandmarks: the hand as it is first seen (<<>> elsewhere)
    landmarks,  \* SpecLandmarks: the same hand moved, as classifySign is given it
    factor,     \* SpecLandmarks: how many times larger landmarks is than landmarks0
    handLandmarker,     \* the state handLandmarker: TRUE once the detector is set
    running,            \* the state running
    showDebug,          \* the state showDebug
    loopPc,             \* where loop() is: "off", "detect" (awaiting
                        \* detectForVideo) or "raf" (waiting for the next frame)
    hand,               \* result.landmarks.length > 0 of the last detection
    gestureRef,         \* gestureRef.current
    isCountingDown,     \* the state isCountingDown
    countdown,          \* the state countdown ("null" for null)
    roundOutcome,       \* the state roundOutcome
    playerGesture,      \* the state playerGesture
    computerGesture,    \* the state computerGesture
    score,              \* the state score
    pendingTimers,      \* the window's timers that are set and have not fired
    countdownTimersRef, \* countdownTimersRef.current
    accepted,           \* history variable: calls of startRound that passed its guard
    resolved,           \* history variable: rounds decided at the final step
    recognized          \* history variable: rounds decided on a recognized gesture

stabVars == <<cap, buffer, gesture, pushed>>

frameVars == <<m, label, labelDoc, landmarks0, landmarks, factor>>

loopVars == <<handLandmarker, running, showDebug, loopPc, hand, gestureRef>>

roundVars == <<isCountingDown, countdown, roundOutcome, playerGesture,
               computerGesture, score, pendingTimers, countdownTimersRef,
               accepted, resolved, recognized>>

vars == <<stabVars, frameVars, loopVars, roundVars>>

(***************************************************************************)
(* Bounds of the model                                                     *)
(***************************************************************************)
MaxPushes == 9

\* the rounds startRound accepts in a behaviour of Spec
MaxRounds == 2

\* the largest factor a hand is scaled by in SpecLandmarks
MaxFactor == 3

\* how far, in units, the wrist is moved from where it was first seen
MaxShift == 2

(***************************************************************************)
(* Labels                                                                  *)
(***************************************************************************)
Labels == {"rock", "paper", "scissors", "lizard", "spock", "unknown"}

\* The raw labels the stabilizer is fed in the model.  stableGesture treats
\* its labels only through equality, so three of the six suffice.
RawLabels == {"rock", "paper", "unknown"}

\* n = 5 is the default of stableGesture and the only value the component
\* uses; the capacity-4 window is the one the tie-break scenario names.
DefaultCapacity == 5

Capacities == {DefaultCapacity - 1, DefaultCapacity}

(***************************************************************************)
(* classifySign: the measurements                                          *)
(*                                                                         *)
(* A frame is described by what classifySign measures on the landmarks,    *)
(* in hundredths of the hand scale:                                        *)
(*   mI, mM, mR, mP   norm(dist(tip, WRIST) - dist(pip, WRIST)) per finger *)
(*   gapIM, gapMR, gapRP                      the fingertip gaps           *)
(*   thumb                                    thumbToIndexMCP              *)
(*   cosIM                                    the direction cosine         *)
(* The flags, the count, the spread ratio and cv are computed from them    *)
(* as the source computes them.                                            *)
(***************************************************************************)
\* below 0.03 (bent), in the dead zone, above 0.07 (extended)
MarginValues == {-4, 5, 8}

\* The source asks only whether the index and the middle finger are
\* extended, never whether they are bent.
BladeMarginValues == {-4, 8}

GapValues == {0, 10, 15, 20, 28, 30, 35}

ThumbValues == {15, 20, 28, 32, 34, 40}

CosValues == {79, 80, 95}

MetricsInputs ==
    [mI : BladeMarginValues, mM : BladeMarginValues,
     mR : MarginValues, mP : MarginValues,
     gapIM : GapValues, gapMR : GapValues, gapRP : GapValues,
     thumb : ThumbValues, cosIM : CosValues]

\* what the measurements are for 21 coincident landmarks
ZeroMetrics ==
    [mI |-> 0, mM |-> 0, mR |-> 0, mP |-> 0,
     gapIM |-> 0, gapMR |-> 0, gapRP |-> 0, thumb |-> 0, cosIM |-> 0]

Max(a, b) == IF a >= b THEN a ELSE b

Min(a, b) == IF a <= b THEN a ELSE b

\* norm(dist(tip, WRIST) - dist(pip, WRIST)) > 0.07
fartherThan(margin) == margin > 7

\* norm(dist(tip, WRIST) - dist(pip, WRIST)) < 0.03
bent(margin) == margin < 3

indexExt(x) == fartherThan(x.mI)

middleExt(x) == fartherThan(x.mM)

ringExt(x) == fartherThan(x.mR)

pinkyExt(x) == fartherThan(x.mP)

BoolToNumber(b) == IF b THEN 1 ELSE 0

\* A slip: the pinky is left out of the count.
extendedCountNoPinky(x) ==
    BoolToNumber(indexExt(x)) + BoolToNumber(middleExt(x)) + BoolToNumber(ringExt(x))

\* Number(indexExt) + Number(middleExt) + Number(ringExt) + Number(pinkyExt)
extendedCount(x) ==
    BoolToNumber(indexExt(x)) + BoolToNumber(middleExt(x))
        + BoolToNumber(ringExt(x)) + BoolToNumber(pinkyExt(x))

\* spockRatio = gapMR / Math.max(1e-6, pairAvg), pairAvg = (gapIM + gapRP) / 2,
\* as the fraction SpockRatioNum / SpockRatioDen in millionths of the scale:
\* a hundredth is 10000 millionths, and both parts are doubled.
SpockRatioNum(x) == 2 * x.gapMR * 10000

SpockRatioDen(x) == Max(2, (x.gapIM + x.gapRP) * 10000)

\* spockRatio > t / 100
spockRatioAbove(x, t) == 100 * SpockRatioNum(x) > t * SpockRatioDen(x)

\* mean = (gapIM + gapMR + gapRP) / 3, as the sum
GapSum(x) == x.gapIM + x.gapMR + x.gapRP

\* 27 times the variance stdev ** 2 of the three gaps
GapSpread(x) ==
    LET S == GapSum(x)
    IN  (3 * x.gapIM - S) * (3 * x.gapIM - S)
          + (3 * x.gapMR - S) * (3 * x.gapMR - S)
          + (3 * x.gapRP - S) * (3 * x.gapRP - S)

\* cv < c / 100, where cv = mean > 0 ? stdev / mean : 1.  With S the sum of
\* the gaps, cv ** 2 = GapSpread / (3 * S ** 2).
cvBelow(x, c) ==
    IF GapSum(x) > 0
    THEN 10000 * GapSpread(x) < 3 * c * c * GapSum(x) * GapSum(x)
    ELSE 100 < c

thumbAlong(x) == x.thumb < 28

(***************************************************************************)
(* classifySign of classifySign.ts                                         *)
(***************************************************************************)
thumbOut(x) == x.thumb > 34

T == [scissorsIMMaxGap |-> 28, scissorsCosMin |-> 80, paperCV |-> 22,
      spockRatio |-> 160, spockGapMR |-> 23, pairTight |-> 24]

\* A slip: the spockRatio gate the source says it removed is still there.
ScissorsRuleRatioGate(x) ==
    /\ indexExt(x) /\ middleExt(x) /\ ~ringExt(x) /\ ~pinkyExt(x)
    /\ bent(x.mR) /\ bent(x.mP)
    /\ x.gapIM <= T.scissorsIMMaxGap
    /\ x.cosIM >= T.scissorsCosMin
    /\ ~spockRatioAbove(x, T.spockRatio)

ScissorsRule(x) ==
    /\ indexExt(x) /\ middleExt(x) /\ ~ringExt(x) /\ ~pinkyExt(x)
    /\ bent(x.mR) /\ bent(x.mP)
    /\ x.gapIM <= T.scissorsIMMaxGap
    /\ x.cosIM >= T.scissorsCosMin

SpockRule(x) ==
    /\ extendedCount(x) = 4
    /\ spockRatioAbove(x, T.spockRatio)
    /\ x.gapIM < T.pairTight /\ x.gapRP < T.pairTight
    /\ x.gapMR > T.spockGapMR
    /\ thumbOut(x)

\* A slip: thumbOut for thumbAlong.
PaperRuleThumbOut(x) ==
    /\ extendedCount(x) = 4
    /\ cvBelow(x, T.paperCV)
    /\ ~spockRatioAbove(x, T.spockRatio)
    /\ thumbOut(x)

PaperRule(x) ==
    /\ extendedCount(x) = 4
    /\ cvBelow(x, T.paperCV)
    /\ ~spockRatioAbove(x, T.spockRatio)
    /\ thumbAlong(x)

RockRule(x) == extendedCount(x) <= 1 /\ ~thumbOut(x)

LizardRule(x) ==
    thumbOut(x) /\ ~middleExt(x) /\ ~ringExt(x) /\ (indexExt(x) \/ pinkyExt(x))

SpockTieBreak(x) ==
    /\ extendedCount(x) = 4 /\ thumbOut(x)
    /\ spockRatioAbove(x, 135) /\ x.gapMR > 20

\* A slip: <= 3 for <= 2.
LizardTieBreakUpTo3(x) == extendedCount(x) <= 3 /\ thumbOut(x)

LizardTieBreak(x) == extendedCount(x) <= 2 /\ thumbOut(x)

\* A slip: a path that falls off the rules without a label.
classifySignNoDefault(x) ==
    IF ScissorsRule(x) THEN "scissors"
    ELSE IF SpockRule(x) THEN "spock"
    ELSE IF PaperRule(x) THEN "paper"
    ELSE IF RockRule(x) THEN "rock"
    ELSE IF LizardRule(x) THEN "lizard"
    ELSE IF SpockTieBreak(x) THEN "spock"
    ELSE IF LizardTieBreak(x) THEN "lizard"
    ELSE "undefined"

\* the label classifySign returns: the first rule that matches
classifySign(x) ==
    IF ScissorsRule(x) THEN "scissors"
    ELSE IF SpockRule(x) THEN "spock"
    ELSE IF PaperRule(x) THEN "paper"
    ELSE IF RockRule(x) THEN "rock"
    ELSE IF LizardRule(x) THEN "lizard"
    ELSE IF SpockTieBreak(x) THEN "spock"
    ELSE IF LizardTieBreak(x) THEN "lizard"
    ELSE "unknown"

(***************************************************************************)
(* classifySign as DEPLOYMENT.md gives it (hard and soft thumb bands,      *)
(* borderline spock rule, loose paper fallback)                            *)
(***************************************************************************)
thumbOutHard(x) == x.thumb > 33

thumbOutSoft(x) == x.thumb > 31

TDoc == [scissorsIMMaxGap |-> 28, scissorsCosMin |-> 80, paperCV |-> 35,
         spockRatio |-> 145, spockGapMR |-> 18, pairTight |-> 22]

DocScissorsRule(x) ==
    /\ indexExt(x) /\ middleExt(x) /\ ~ringExt(x) /\ ~pinkyExt(x)
    /\ bent(x.mR) /\ bent(x.mP)
    /\ x.gapIM <= TDoc.scissorsIMMaxGap
    /\ x.cosIM >= TDoc.scissorsCosMin

DocSpockRule(x) ==
    /\ extendedCount(x) = 4
    /\ spockRatioAbove(x, TDoc.spockRatio)
    /\ x.gapIM < TDoc.pairTight /\ x.gapRP < TDoc.pairTight
    /\ x.gapMR > TDoc.spockGapMR
    /\ thumbOutHard(x)

\* A slip: the pairing threshold moved by 0.02 the wrong way.
DocSpockSoftRuleTighter(x) ==
    /\ extendedCount(x) = 4
    /\ \/ spockRatioAbove(x, TDoc.spockRatio) /\ x.gapMR > TDoc.spockGapMR - 2
       \/ spockRatioAbove(x, 170)
    /\ x.gapIM < TDoc.pairTight - 2 /\ x.gapRP < TDoc.pairTight - 2
    /\ thumbOutSoft(x)

DocSpockSoftRule(x) ==
    /\ extendedCount(x) = 4
    /\ \/ spockRatioAbove(x, TDoc.spockRatio) /\ x.gapMR > TDoc.spockGapMR - 2
       \/ spockRatioAbove(x, 170)
    /\ x.gapIM < TDoc.pairTight + 2 /\ x.gapRP < TDoc.pairTight + 2
    /\ thumbOutSoft(x)

\* spockRatio <= 1.35, the ratio test of the strict paper rule
DocPaperRatioOK(x) == ~spockRatioAbove(x, 135)

DocPaperRule(x) ==
    /\ extendedCount(x) = 4
    /\ thumbAlong(x)
    /\ DocPaperRatioOK(x)
    /\ cvBelow(x, TDoc.paperCV)
    /\ x.gapIM < 30 /\ x.gapMR < 30 /\ x.gapRP < 30

maxGap(x) == Max(x.gapIM, Max(x.gapMR, x.gapRP))

minGap(x) == Min(x.gapIM, Min(x.gapMR, x.gapRP))

\* A slip: a fallback ceiling above the strict one.
DocPaperLooseRatioRelaxed(x) == ~spockRatioAbove(x, 145)

\* spockRatio <= 1.25, the ratio test of the loose paper fallback
DocPaperLooseRatioOK(x) == ~spockRatioAbove(x, 125)

DocPaperLooseRule(x) ==
    /\ extendedCount(x) = 4
    /\ thumbAlong(x)
    /\ DocPaperLooseRatioOK(x)
    /\ maxGap(x) <= 32
    /\ maxGap(x) - minGap(x) <= 18

DocRockRule(x) == extendedCount(x) <= 1 /\ ~thumbOutSoft(x)

DocLizardRule(x) ==
    thumbOutSoft(x) /\ ~middleExt(x) /\ ~ringExt(x) /\ (indexExt(x) \/ pinkyExt(x))

DocSpockTieBreak(x) ==
    /\ extendedCount(x) = 4 /\ thumbOutSoft(x)
    /\ spockRatioAbove(x, 135) /\ x.gapMR > 16

DocLizardTieBreak(x) == extendedCount(x) <= 2 /\ thumbOutSoft(x)

classifySignDoc(x) ==
    IF DocScissorsRule(x) THEN "scissors"
    ELSE IF DocSpockRule(x) THEN "spock"
    ELSE IF DocSpockSoftRule(x) THEN "spock"
    ELSE IF DocPaperRule(x) THEN "paper"
    ELSE IF DocPaperLooseRule(x) THEN "paper"
    ELSE IF DocRockRule(x) THEN "rock"
    ELSE IF DocLizardRule(x) THEN "lizard"
    ELSE IF DocSpockTieBreak(x) THEN "spock"
    ELSE IF DocLizardTieBreak(x) THEN "lizard"
    ELSE "unknown"

(***************************************************************************)
(* classifySign on landmarks                                               *)
(*                                                                         *)
(* A hand is its 21 landmarks, each <<x, y>> in whole units of half a      *)
(* millionth of the image, so that the floor 1e-6 of the bounding box is   *)
(* Eps = 2 units and a box can be narrower than the floor without being    *)
(* flat.  The hands of the model are chosen so that every distance the     *)
(* source takes is a whole number of units; a measurement v / scale is     *)
(* then kept exactly, as the fraction v ** 2 / scale ** 2 in lowest terms, *)
(* and compared with a threshold c / 100 by cross-multiplication.          *)
(***************************************************************************)
Eps == 2

WRIST == 0

TIP == [i |-> 8, m |-> 12, r |-> 16, p |-> 20, t |-> 4]

PIP == [i |-> 6, m |-> 10, r |-> 14, p |-> 18]

INDEX_MCP == 5

LandmarkIds == 0..20

RECURSIVE RootFrom(_, _)
RootFrom(n, r) == IF r * r >= n THEN r ELSE RootFrom(n, r + 1)

\* Math.hypot(dx, dy), for the whole-number roots the model's hands have
hypot(dx, dy) == CHOOSE r \in {RootFrom(dx * dx + dy * dy, 0)} : r * r = dx * dx + dy * dy

dist(lm, a, b) == hypot(lm[a][1] - lm[b][1], lm[a][2] - lm[b][2])

SetMax(S) == CHOOSE v \in S : \A w \in S : w <= v

SetMin(S) == CHOOSE v \in S : \A w \in S : v <= w

\* maxX - minX
boxWidth(lm) ==
    SetMax({lm[i][1] : i \in LandmarkIds}) - SetMin({lm[i][1] : i \in LandmarkIds})

\* A slip: minY and maxY start at 0, not at Infinity and -Infinity.
boxHeightFromZero(lm) ==
    SetMax({lm[i][2] : i \in LandmarkIds} \cup {0})
        - SetMin({lm[i][2] : i \in LandmarkIds} \cup {0})

\* maxY - minY
boxHeight(lm) ==
    SetMax({lm[i][2] : i \in LandmarkIds}) - SetMin({lm[i][2] : i \in LandmarkIds})

\* A slip: the floor is left out of the scale.
scaleSquaredNoFloor(lm) ==
    boxWidth(lm) * boxWidth(lm) + boxHeight(lm) * boxHeight(lm)

\* scale ** 2, scale = Math.hypot(Math.max(maxX - minX, 1e-6), Math.max(maxY - minY, 1e-6))
scaleSquared(lm) ==
    Max(boxWidth(lm), Eps) * Max(boxWidth(lm), Eps)
        + Max(boxHeight(lm), Eps) * Max(boxHeight(lm), Eps)

RECURSIVE GCD(_, _)
GCD(a, b) == IF b = 0 THEN a ELSE GCD(b, a % b)

\* the fraction n / d in lowest terms (n / 0, which norm gives when the scale
\* is 0, as it stands: NaN for 0 / 0, Infinity otherwise)
Fraction(n, d) ==
    IF d = 0 THEN <<n, 0>>
    ELSE <<n \div GCD(n, d), d \div GCD(n, d)>>

\* norm(v) ** 2, for v >= 0
normSquared(lm, v) == Fraction(v * v, scaleSquared(lm))

\* norm(v) > c / 100
normAbove(lm, v, c) == v > 0 /\ 10000 * v * v > c * c * scaleSquared(lm)

\* norm(v) < c / 100
normBelow(lm, v, c) == v <= 0 \/ 10000 * v * v < c * c * scaleSquared(lm)

\* dist(tip, WRIST) - dist(pip, WRIST)
margin(lm, f) == dist(lm, TIP[f], WRIST) - dist(lm, PIP[f], WRIST)

fartherThanOn(lm, f) == normAbove(lm, margin(lm, f), 7)

bentOn(lm, f) == normBelow(lm, margin(lm, f), 3)

extendedCountOn(lm) ==
    BoolToNumber(fartherThanOn(lm, "i")) + BoolToNumber(fartherThanOn(lm, "m"))
        + BoolToNumber(fartherThanOn(lm, "r")) + BoolToNumber(fartherThanOn(lm, "p"))

\* dist(TIP.t, INDEX_MCP)
thumbDist(lm) == dist(lm, TIP.t, INDEX_MCP)

thumbOutOn(lm) == normAbove(lm, thumbDist(lm), 34)

thumbAlongOn(lm) == normBelow(lm, thumbDist(lm), 28)

\* the fingertip distances the gaps are the norm of
tipIM(lm) == dist(lm, TIP.i, TIP.m)

tipMR(lm) == dist(lm, TIP.m, TIP.r)

tipRP(lm) == dist(lm, TIP.r, TIP.p)

tipSum(lm) == tipIM(lm) + tipMR(lm) + tipRP(lm)

\* cv ** 2, cv = mean > 0 ? stdev / mean : 1; the scale cancels, and with G
\* the sum and Q the sum of the squares of the three distances
\* (stdev / mean) ** 2 = (3 * Q - G ** 2) / G ** 2
cvSquared(lm) ==
    LET G == tipSum(lm)
        Q == tipIM(lm) * tipIM(lm) + tipMR(lm) * tipMR(lm) + tipRP(lm) * tipRP(lm)
    IN  IF G > 0 THEN Fraction(3 * Q - G * G, G * G) ELSE <<1, 1>>

\* cv < c / 100
cvBelowOn(lm, c) == 10000 * cvSquared(lm)[1] < c * c * cvSquared(lm)[2]

\* pairAvg > 0.  A pairAvg that is not 0 is at least 1 / (2 * scale), far
\* above 1e-6 for the model's hands, so Math.max(1e-6, pairAvg) is pairAvg
\* then and 1e-6 otherwise.
pairOpen(lm) == tipIM(lm) + tipRP(lm) > 0

\* spockRatio = gapMR / Math.max(1e-6, pairAvg): the fraction
\* 2 * tipMR / (tipIM + tipRP) when the pair is open, and gapMR * 1e6, named
\* by gapMR ** 2, when it is not
spockRatioOn(lm) ==
    IF pairOpen(lm)
    THEN <<"ratio", Fraction(2 * tipMR(lm), tipIM(lm) + tipRP(lm))>>
    ELSE <<"floored", normSquared(lm, tipMR(lm))>>

\* spockRatio > t / 100.  With the pair closed, gapMR * 1e6 is 0 or at
\* least 1e6 / scale, above every threshold for the model's hands.
spockRatioAboveOn(lm, t) ==
    IF pairOpen(lm)
    THEN 200 * tipMR(lm) > t * (tipIM(lm) + tipRP(lm))
    ELSE tipMR(lm) > 0

\* the vector tip - pip, not yet divided by its length
v(lm, f) == <<lm[TIP[f]][1] - lm[PIP[f]][1], lm[TIP[f]][2] - lm[PIP[f]][2]>>

\* len ** 2 before the floor: len = Math.hypot(dx, dy) || 1e-6
lenSquared(lm, f) == v(lm, f)[1] * v(lm, f)[1] + v(lm, f)[2] * v(lm, f)[2]

dotIM(lm) == v(lm, "i")[1] * v(lm, "m")[1] + v(lm, "i")[2] * v(lm, "m")[2]

\* cosIM as its sign and its square.  A vector of length 0 is divided by
\* 1e-6 and stays 0, so cosIM is 0 then.
cosIMOn(lm) ==
    IF dotIM(lm) = 0 THEN <<0, <<0, 1>>>>
    ELSE <<IF dotIM(lm) > 0 THEN 1 ELSE -1,
           Fraction(dotIM(lm) * dotIM(lm), lenSquared(lm, "i") * lenSquared(lm, "m"))>>

\* cosIM >= c / 100
cosIMAtLeast(lm, c) ==
    /\ cosIMOn(lm)[1] > 0
    /\ 10000 * cosIMOn(lm)[2][1] >= c * c * cosIMOn(lm)[2][2]

\* the SignMetrics of a hand
metricsOn(lm) ==
    [gapIM |-> normSquared(lm, tipIM(lm)),
     gapMR |-> normSquared(lm, tipMR(lm)),
     gapRP |-> normSquared(lm, tipRP(lm)),
     spockRatio |-> spockRatioOn(lm),
     cv |-> cvSquared(lm),
     thumbToIndexMCP |-> normSquared(lm, thumbDist(lm)),
     thumbOut |-> thumbOutOn(lm),
     thumbAlong |-> thumbAlongOn(lm),
     indexExt |-> fartherThanOn(lm, "i"),
     middleExt |-> fartherThanOn(lm, "m"),
     ringExt |-> fartherThanOn(lm, "r"),
     pinkyExt |-> fartherThanOn(lm, "p"),
     extendedCount |-> extendedCountOn(lm),
     cosIM |-> cosIMOn(lm)]

ScissorsRuleOn(lm) ==
    /\ fartherThanOn(lm, "i") /\ fartherThanOn(lm, "m")
    /\ ~fartherThanOn(lm, "r") /\ ~fartherThanOn(lm, "p")
    /\ bentOn(lm, "r") /\ bentOn(lm, "p")
    /\ ~normAbove(lm, tipIM(lm), T.scissorsIMMaxGap)
    /\ cosIMAtLeast(lm, T.scissorsCosMin)

SpockRuleOn(lm) ==
    /\ extendedCountOn(lm) = 4
    /\ spockRatioAboveOn(lm, T.spockRatio)
    /\ normBelow(lm, tipIM(lm), T.pairTight) /\ normBelow(lm, tipRP(lm), T.pairTight)
    /\ normAbove(lm, tipMR(lm), T.spockGapMR)
    /\ thumbOutOn(lm)

PaperRuleOn(lm) ==
    /\ extendedCountOn(lm) = 4
    /\ cvBelowOn(lm, T.paperCV)
    /\ ~spockRatioAboveOn(lm, T.spockRatio)
    /\ thumbAlongOn(lm)

RockRuleOn(lm) == extendedCountOn(lm) <= 1 /\ ~thumbOutOn(lm)

LizardRuleOn(lm) ==
    /\ thumbOutOn(lm) /\ ~fartherThanOn(lm, "m") /\ ~fartherThanOn(lm, "r")
    /\ (fartherThanOn(lm, "i") \/ fartherThanOn(lm, "p"))

SpockTieBreakOn(lm) ==
    /\ extendedCountOn(lm) = 4 /\ thumbOutOn(lm)
    /\ spockRatioAboveOn(lm, 135) /\ normAbove(lm, tipMR(lm), 20)

LizardTieBreakOn(lm) == extendedCountOn(lm) <= 2 /\ thumbOutOn(lm)

\* the label classifySign returns for a hand
classifySignOn(lm) ==
    IF ScissorsRuleOn(lm) THEN "scissors"
    ELSE IF SpockRuleOn(lm) THEN "spock"
    ELSE IF PaperRuleOn(lm) THEN "paper"
    ELSE IF RockRuleOn(lm) THEN "rock"
    ELSE IF LizardRuleOn(lm) THEN "lizard"
    ELSE IF SpockTieBreakOn(lm) THEN "spock"
    ELSE IF LizardTieBreakOn(lm) THEN "lizard"
    ELSE "unknown"

(***************************************************************************)
(* stableGesture                                                           *)
(***************************************************************************)
\* bufferRef.current.push(label)
PushLabel(buf, raw) == Append(buf, raw)

\* A slip: >= for >, which keeps only n - 1 labels.
ShiftIfAtLeast(buf, n) == IF Len(buf) >= n THEN Tail(buf) ELSE buf

\* A slip: pop() for shift(), which evicts the newest label.
PopIfOver(buf, n) == IF Len(buf) > n THEN SubSeq(buf, 1, Len(buf) - 1) ELSE buf

\* if (bufferRef.current.length > n) bufferRef.current.shift()
ShiftIfOver(buf, n) == IF Len(buf) > n THEN Tail(buf) ELSE buf

\* for (const l of buffer) freq[l] = (freq[l] || 0) + 1 : the value of freq[l]
CountOf(buf, l) == Cardinality({i \in DOMAIN buf : buf[i] = l})

\* The keys of freq in the order Object.entries lists them: a string key
\* that is not an array index is listed in insertion order, which is the
\* order of the labels' first occurrences in the buffer.
RECURSIVE FreqKeys(_)
FreqKeys(buf) ==
    IF buf = <<>> THEN <<>>
    ELSE LET front == SubSeq(buf, 1, Len(buf) - 1)
             keys  == FreqKeys(front)
             last  == buf[Len(buf)]
         IN  IF \E i \in DOMAIN keys : keys[i] = last
             THEN keys
             ELSE Append(keys, last)

\* Object.entries(freq): the pairs [label, count]
FreqEntries(buf) ==
    LET keys == FreqKeys(buf)
    IN  [i \in DOMAIN keys |-> <<keys[i], CountOf(buf, keys[i])>>]

\* A slip: a[1] - b[1], which sorts the least frequent label first.
CompareAsc(a, b) == a[2] - b[2]

\* (a, b) => b[1] - a[1]
CompareDesc(a, b) == b[2] - a[2]

\* A slip: a selection that lets a later label of equal count win.
RECURSIVE InsertSortedTiesLast(_, _)
InsertSortedTiesLast(sorted, e) ==
    IF sorted = <<>> THEN <<e>>
    ELSE IF CompareDesc(Head(sorted), e) < 0
         THEN <<Head(sorted)>> \o InsertSortedTiesLast(Tail(sorted), e)
         ELSE <<e>> \o sorted

\* One step of a stable sort: e goes behind every element that does not
\* compare greater than it (a negative or zero comparison keeps the order).
RECURSIVE InsertSorted(_, _)
InsertSorted(sorted, e) ==
    IF sorted = <<>> THEN <<e>>
    ELSE IF CompareDesc(Head(sorted), e) <= 0
         THEN <<Head(sorted)>> \o InsertSorted(Tail(sorted), e)
         ELSE <<e>> \o sorted

\* Array.prototype.sort with the comparator above; the sort is stable.
RECURSIVE SortEntries(_)
SortEntries(entries) ==
    IF entries = <<>> THEN <<>>
    ELSE InsertSorted(SortEntries(SubSeq(entries, 1, Len(entries) - 1)),
                      entries[Len(entries)])

\* Object.entries(freq).sort(...)[0][0]
ModeOf(buf) == SortEntries(FreqEntries(buf))[1][1]

\* The buffer after stableGesture(label, n)
BufferAfter(buf, raw, n) == ShiftIfOver(PushLabel(buf, raw), n)

(***************************************************************************)
(* The stabilizer as a state machine                                       *)
(***************************************************************************)
\* Before the first frame: no metrics, no gesture, an empty buffer.
NoFrameYet ==
    /\ m = ZeroMetrics
    /\ label = ""
    /\ labelDoc = ""

NoLandmarks ==
    /\ landmarks0 = <<>>
    /\ landmarks = <<>>
    /\ factor = 1

FreshStabilizer ==
    /\ buffer = <<>>
    /\ gesture = ""
    /\ pushed = <<>>

\* The useState and useRef initial values of HandDetector.
Mounted ==
    /\ handLandmarker = FALSE
    /\ running = FALSE
    /\ showDebug = FALSE
    /\ loopPc = "off"
    /\ hand = FALSE
    /\ gestureRef = ""
    /\ isCountingDown = FALSE
    /\ countdown = "null"
    /\ roundOutcome = "none"
    /\ playerGesture = ""
    /\ computerGesture = ""
    /\ score = [player |-> 0, computer |-> 0, ties |-> 0]
    /\ pendingTimers = {}
    /\ countdownTimersRef = {}
    /\ accepted = 0
    /\ resolved = 0
    /\ recognized = 0

InitStab ==
    /\ cap \in Capacities
    /\ FreshStabilizer
    /\ NoFrameYet
    /\ NoLandmarks
    /\ Mounted

\* setGesture(stableGesture(label))
Push(raw) ==
    /\ Len(pushed) < MaxPushes
    /\ buffer' = BufferAfter(buffer, raw, cap)
    /\ gesture' = ModeOf(buffer')
    /\ pushed' = Append(pushed, raw)
    /\ UNCHANGED <<cap, frameVars, loopVars, roundVars>>

NextStab == \E raw \in RawLabels : Push(raw)

SpecStab == InitStab /\ [][NextStab]_vars

(***************************************************************************)
(* The classifier as a state machine: one frame's measurements are         *)
(* classified, by classifySign.ts and by the copy in DEPLOYMENT.md          *)
(***************************************************************************)
InitClassify ==
    /\ cap = DefaultCapacity
    /\ FreshStabilizer
    /\ NoFrameYet
    /\ NoLandmarks
    /\ Mounted

\* const { label, metrics } = classifySign(landmarks)
Classify(x) ==
    /\ m' = x
    /\ label' = classifySign(x)
    /\ labelDoc' = classifySignDoc(x)
    /\ UNCHANGED <<landmarks0, landmarks, factor>>
    /\ UNCHANGED <<stabVars, loopVars, roundVars>>

\* the model follows one frame
NextClassify == label = "" /\ \E x \in MetricsInputs : Classify(x)

SpecClassify == InitClassify /\ [][NextClassify]_vars

(***************************************************************************)
(* HandDetector: the game                                                  *)
(***************************************************************************)
GESTURES == {"rock", "paper", "scissors", "lizard", "spock"}

\* A slip: lizard is given rock for paper, so rock and lizard beat each other.
WIN_MAP_LizardBeatsRock ==
    [rock     |-> {"scissors", "lizard"},
     paper    |-> {"rock", "spock"},
     scissors |-> {"paper", "lizard"},
     lizard   |-> {"spock", "rock"},
     spock    |-> {"scissors", "rock"}]

WIN_MAP ==
    [rock     |-> {"scissors", "lizard"},
     paper    |-> {"rock", "spock"},
     scissors |-> {"paper", "lizard"},
     lizard   |-> {"spock", "paper"},
     spock    |-> {"scissors", "rock"}]

\* the values getRandomGesture can return
getRandomGesture == GESTURES

isGesture(value) == value \in GESTURES

decideOutcome(player, computer) ==
    IF player = computer THEN "tie"
    ELSE IF computer \in WIN_MAP[player] THEN "player" ELSE "computer"

\* A slip: a tie is not counted.
ScoreAfterNoTies(prev, outcome) ==
    [player   |-> prev.player + (IF outcome = "player" THEN 1 ELSE 0),
     computer |-> prev.computer + (IF outcome = "computer" THEN 1 ELSE 0),
     ties     |-> prev.ties]

\* the updater given to setScore
ScoreAfter(prev, outcome) ==
    [player   |-> prev.player + (IF outcome = "player" THEN 1 ELSE 0),
     computer |-> prev.computer + (IF outcome = "computer" THEN 1 ELSE 0),
     ties     |-> prev.ties + (IF outcome = "tie" THEN 1 ELSE 0)]

(***************************************************************************)
(* HandDetector: the countdown                                             *)
(*                                                                         *)
(* A timer is named by what it does: the four steps of a round and the     *)
(* timer that hides the countdown.  Timers of different rounds share their *)
(* names, which loses nothing as long as a round's timers are gone when    *)
(* the next round sets its own.                                            *)
(***************************************************************************)
\* steps, in the order of their delays 0, 1000, 2000, 3000
steps == <<"3", "2", "1", "Shoot!">>

StepTimers == {steps[i] : i \in DOMAIN steps}

HideTimer == "hide"

StepIndex(t) == CHOOSE i \in DOMAIN steps : steps[i] = t

\* The window fires timers in the order of their deadlines: a step can fire
\* when no step of a smaller delay is pending.
Due(t) ==
    /\ t \in pendingTimers
    /\ t \in StepTimers =>
          \A u \in pendingTimers \cap StepTimers : StepIndex(t) <= StepIndex(u)

\* the timers left once clearCountdownTimers has run
ClearedTimers == pendingTimers \ countdownTimersRef

\* A slip: the guard does not look at isCountingDown.
startRoundGuardRunningOnly == running

\* !( !running || isCountingDown )
startRoundGuard == running /\ ~isCountingDown

\* countdownTimersRef.current.push(hideId)
HideTimerRef(ref) == ref \cup {HideTimer}

\* startRound: the click on Play Round
startRound ==
    /\ IF startRoundGuard /\ accepted < MaxRounds
       THEN /\ isCountingDown' = TRUE
            /\ roundOutcome' = "none"
            /\ computerGesture' = ""
            /\ playerGesture' = ""
            /\ countdown' = "null"
            /\ pendingTimers' = ClearedTimers \cup StepTimers
            /\ countdownTimersRef' = StepTimers
            /\ accepted' = accepted + 1
            /\ UNCHANGED <<score, resolved, recognized>>
       ELSE UNCHANGED roundVars
    /\ UNCHANGED <<stabVars, frameVars, loopVars>>

\* the timer callback of a step that is not the final one
StepFires(t) ==
    /\ t \in StepTimers /\ t # "Shoot!"
    /\ Due(t)
    /\ countdown' = t
    /\ pendingTimers' = pendingTimers \ {t}
    /\ UNCHANGED <<isCountingDown, roundOutcome, playerGesture, computerGesture,
                   score, countdownTimersRef, accepted, resolved, recognized>>
    /\ UNCHANGED <<stabVars, frameVars, loopVars>>

\* the timer callback of the final step, the gesture not being one of GESTURES
ShootUnread ==
    /\ Due("Shoot!")
    /\ ~(gestureRef # "" /\ isGesture(gestureRef))
    /\ countdown' = "Shoot!"
    /\ playerGesture' = "unknown"
    /\ roundOutcome' = "none"
    /\ isCountingDown' = FALSE
    /\ pendingTimers' = (pendingTimers \ {"Shoot!"}) \cup {HideTimer}
    /\ countdownTimersRef' = HideTimerRef(countdownTimersRef)
    /\ resolved' = resolved + 1
    /\ UNCHANGED <<computerGesture, score, accepted, recognized>>
    /\ UNCHANGED <<stabVars, frameVars, loopVars>>

\* the timer callback of the final step, the gesture being one of GESTURES
ShootDecided(computerMove) ==
    /\ Due("Shoot!")
    /\ gestureRef # "" /\ isGesture(gestureRef)
    /\ countdown' = "Shoot!"
    /\ playerGesture' = gestureRef
    /\ computerGesture' = computerMove
    /\ roundOutcome' = decideOutcome(gestureRef, computerMove)
    /\ score' = ScoreAfter(score, decideOutcome(gestureRef, computerMove))
    /\ isCountingDown' = FALSE
    /\ pendingTimers' = (pendingTimers \ {"Shoot!"}) \cup {HideTimer}
    /\ countdownTimersRef' = HideTimerRef(countdownTimersRef)
    /\ resolved' = resolved + 1
    /\ recognized' = recognized + 1
    /\ UNCHANGED accepted
    /\ UNCHANGED <<stabVars, frameVars, loopVars>>

\* window.setTimeout(() => setCountdown(null), 900)
HideFires ==
    /\ Due(HideTimer)
    /\ countdown' = "null"
    /\ pendingTimers' = pendingTimers \ {HideTimer}
    /\ UNCHANGED <<isCountingDown, roundOutcome, playerGesture, computerGesture,
                   score, countdownTimersRef, accepted, resolved, recognized>>
    /\ UNCHANGED <<stabVars, frameVars, loopVars>>

(***************************************************************************)
(* HandDetector: the detection loop                                        *)
(***************************************************************************)
\* The frames of the component's model: a fist with the thumb tucked, and
\* a hand with three fingers extended.
FistFrame ==
    [mI |-> -4, mM |-> -4, mR |-> -4, mP |-> -4,
     gapIM |-> 10, gapMR |-> 10, gapRP |-> 10, thumb |-> 15, cosIM |-> 95]

ThreeFingerFrame ==
    [mI |-> 8, mM |-> 8, mR |-> 8, mP |-> -4,
     gapIM |-> 15, gapMR |-> 15, gapRP |-> 30, thumb |-> 20, cosIM |-> 95]

FrameInputs == {FistFrame, ThreeFingerFrame}

\* setHandLandmarker(detector)
LandmarkerLoaded ==
    /\ ~handLandmarker
    /\ handLandmarker' = TRUE
    /\ loopPc' = IF running THEN "detect" ELSE loopPc
    /\ UNCHANGED <<running, showDebug, hand, gestureRef>>
    /\ UNCHANGED <<stabVars, frameVars, roundVars>>

\* startCamera, up to onloadeddata: setRunning(true)
startCamera ==
    /\ running' = TRUE
    /\ loopPc' = IF handLandmarker /\ ~running THEN "detect" ELSE loopPc
    /\ UNCHANGED <<handLandmarker, showDebug, hand, gestureRef>>
    /\ UNCHANGED <<stabVars, frameVars, roundVars>>

\* setShowDebug(e.target.checked)
ToggleDebug ==
    /\ showDebug' = ~showDebug
    /\ UNCHANGED <<handLandmarker, running, loopPc, hand, gestureRef>>
    /\ UNCHANGED <<stabVars, frameVars, roundVars>>

\* A slip: a frame without a hand empties the buffer and the gesture.
NoHandBufferCleared(buf) == <<>>

\* what a frame without a hand leaves of the buffer
NoHandBuffer(buf) == buf

\* loop, from the detection's result on, with a hand in the frame
FrameWithHand(x) ==
    /\ loopPc = "detect"
    /\ loopPc' = "raf"
    /\ hand' = TRUE
    /\ m' = x
    /\ label' = classifySign(x)
    /\ labelDoc' = classifySignDoc(x)
    /\ UNCHANGED <<landmarks0, landmarks, factor>>
    /\ buffer' = BufferAfter(buffer, label', cap)
    /\ gesture' = ModeOf(buffer')
    /\ UNCHANGED <<cap, pushed>>
    /\ UNCHANGED <<handLandmarker, running, showDebug, gestureRef>>
    /\ UNCHANGED roundVars

\* loop, from the detection's result on, without a hand in the frame
FrameWithoutHand ==
    /\ loopPc = "detect"
    /\ loopPc' = "raf"
    /\ hand' = FALSE
    /\ buffer' = NoHandBuffer(buffer)
    /\ gesture' = IF buffer' = buffer THEN gesture ELSE ""
    /\ UNCHANGED <<cap, pushed>>
    /\ UNCHANGED frameVars
    /\ UNCHANGED <<handLandmarker, running, showDebug, gestureRef>>
    /\ UNCHANGED roundVars

\* requestAnimationFrame(loop): loop runs again, up to its await
NextFrame ==
    /\ loopPc = "raf"
    /\ loopPc' = "detect"
    /\ UNCHANGED <<handLandmarker, running, showDebug, hand, gestureRef>>
    /\ UNCHANGED <<stabVars, frameVars, roundVars>>

\* useEffect(() => { gestureRef.current = gesture }, [gesture])
SyncGestureRef ==
    /\ gestureRef # gesture
    /\ gestureRef' = gesture
    /\ UNCHANGED <<handLandmarker, running, showDebug, loopPc, hand>>
    /\ UNCHANGED <<stabVars, frameVars, roundVars>>

Init ==
    /\ cap = DefaultCapacity
    /\ FreshStabilizer
    /\ NoFrameYet
    /\ NoLandmarks
    /\ Mounted

Next ==
    \/ LandmarkerLoaded
    \/ startCamera
    \/ ToggleDebug
    \/ \E x \in FrameInputs : FrameWithHand(x)
    \/ FrameWithoutHand
    \/ NextFrame
    \/ SyncGestureRef
    \/ startRound
    \/ \E t \in StepTimers : StepFires(t)
    \/ ShootUnread
    \/ \E computerMove \in getRandomGesture : ShootDecided(computerMove)
    \/ HideFires

Spec == Init /\ [][Next]_vars

\* a timer of the window fires
TimerFires ==
    \/ \E t \in StepTimers : StepFires(t)
    \/ ShootUnread
    \/ \E computerMove \in getRandomGesture : ShootDecided(computerMove)
    \/ HideFires

\* The window fires every timer that is set and not cleared.
FairSpec == Spec /\ WF_vars(TimerFires)

(***************************************************************************)
(* classifySign given one hand at several sizes and places                 *)
(***************************************************************************)
\* A hand with the wrist at <<0, 0>>; the joints classifySign reads only for
\* the bounding box lie on a joint it measures.
HandOf(thumbTip, indexMCP, pips, tips) ==
    [id \in LandmarkIds |->
        CASE id \in {0, 1, 2, 3} -> <<0, 0>>
          [] id = 4 -> thumbTip
          [] id = 5 -> indexMCP
          [] id = 6 -> pips[1]
          [] id \in {7, 8} -> tips[1]
          [] id \in {9, 10} -> pips[2]
          [] id \in {11, 12} -> tips[2]
          [] id \in {13, 14} -> pips[3]
          [] id \in {15, 16} -> tips[3]
          [] id \in {17, 18} -> pips[4]
          [] OTHER -> tips[4]]

\* four fingers up and evenly spread, the thumb along the palm
FlatHand ==
    HandOf(<<-6, 8>>, <<-3, 4>>,
           <<(<<-3, 4>>), (<<0, 4>>), (<<3, 4>>), (<<6, 8>>)>>,
           <<(<<-5, 12>>), (<<0, 12>>), (<<5, 12>>), (<<9, 12>>)>>)

\* four fingers up in two pairs, the thumb out
VulcanHand ==
    HandOf(<<-16, 12>>, <<-4, 7>>,
           <<(<<-6, 8>>), (<<-3, 4>>), (<<3, 4>>), (<<6, 8>>)>>,
           <<(<<-9, 12>>), (<<-5, 12>>), (<<5, 12>>), (<<9, 12>>)>>)

\* every fingertip nearer the wrist than its joint, the thumb in
FistHand ==
    HandOf(<<-3, 4>>, <<-3, 0>>,
           <<(<<-6, 8>>), (<<0, 8>>), (<<6, 8>>), (<<6, 8>>)>>,
           <<(<<-3, 4>>), (<<0, 4>>), (<<3, 4>>), (<<3, 4>>)>>)

\* index and middle finger up, ring finger and pinky curled
TwoFingerHand ==
    HandOf(<<-10, 0>>, <<-7, 4>>,
           <<(<<-3, 4>>), (<<0, 4>>), (<<0, 8>>), (<<6, 8>>)>>,
           <<(<<-5, 12>>), (<<0, 12>>), (<<0, 4>>), (<<3, 4>>)>>)

\* every landmark on the line x = 0
LineHand ==
    HandOf(<<0, 6>>, <<0, 3>>,
           <<(<<0, 4>>), (<<0, 4>>), (<<0, 4>>), (<<0, 4>>)>>,
           <<(<<0, 10>>), (<<0, 12>>), (<<0, 10>>), (<<0, 8>>)>>)

\* on the line x = 0, index on middle fingertip and ring on pinky fingertip
PinchedLineHand ==
    HandOf(<<0, 9>>, <<0, 3>>,
           <<(<<0, 4>>), (<<0, 4>>), (<<0, 4>>), (<<0, 4>>)>>,
           <<(<<0, 12>>), (<<0, 12>>), (<<0, 8>>), (<<0, 8>>)>>)

\* a box one unit wide, narrower than the floor
NarrowHand ==
    HandOf(<<1, 3>>, <<0, 3>>,
           <<(<<0, 4>>), (<<0, 4>>), (<<0, 4>>), (<<0, 4>>)>>,
           <<(<<0, 10>>), (<<0, 12>>), (<<0, 10>>), (<<0, 8>>)>>)

\* a hand three units long and one wide: index and middle finger up, the
\* fingertips one unit apart
TinyTwoFingerHand ==
    HandOf(<<1, 0>>, <<0, 0>>,
           <<(<<0, 1>>), (<<0, 1>>), (<<0, 1>>), (<<0, 1>>)>>,
           <<(<<0, 3>>), (<<0, 2>>), (<<0, 0>>), (<<0, 0>>)>>)

\* all 21 landmarks on one point
PointHand == [id \in LandmarkIds |-> <<0, 0>>]

Transposed(lm) == [id \in LandmarkIds |-> <<lm[id][2], lm[id][1]>>]

HandInputs ==
    {FlatHand, VulcanHand, FistHand, TwoFingerHand, LineHand, PinchedLineHand,
     Transposed(LineHand), NarrowHand, TinyTwoFingerHand, PointHand}

Scaled(lm, k) == [id \in LandmarkIds |-> <<k * lm[id][1], k * lm[id][2]>>]

Shifted(lm, dx, dy) == [id \in LandmarkIds |-> <<lm[id][1] + dx, lm[id][2] + dy>>]

Abs(n) == IF n < 0 THEN -n ELSE n

\* the wrist is within MaxShift units of where landmarks0 has it
WristNear(lm) == Abs(lm[WRIST][1]) <= MaxShift /\ Abs(lm[WRIST][2]) <= MaxShift

InitLandmarks ==
    /\ cap = DefaultCapacity
    /\ FreshStabilizer
    /\ NoFrameYet
    /\ Mounted
    /\ landmarks0 \in HandInputs
    /\ landmarks = landmarks0
    /\ factor = 1

\* classifySign(landmarks), the hand k times as large
ClassifyScaled(k) ==
    /\ factor * k <= MaxFactor
    /\ WristNear(Scaled(landmarks, k))
    /\ landmarks' = Scaled(landmarks, k)
    /\ factor' = factor * k
    /\ label' = classifySignOn(landmarks')
    /\ UNCHANGED <<landmarks0, m, labelDoc>>
    /\ UNCHANGED <<stabVars, loopVars, roundVars>>

\* classifySign(landmarks), the hand moved by <<dx, dy>>
ClassifyShifted(dx, dy) ==
    /\ WristNear(Shifted(landmarks, dx, dy))
    /\ landmarks' = Shifted(landmarks, dx, dy)
    /\ label' = classifySignOn(landmarks')
    /\ UNCHANGED <<landmarks0, factor, m, labelDoc>>
    /\ UNCHANGED <<stabVars, loopVars, roundVars>>

NextLandmarks ==
    \/ \E k \in 2..MaxFactor : ClassifyScaled(k)
    \/ \E dx, dy \in {-1, 0, 1} : ClassifyShifted(dx, dy)

SpecLandmarks == InitLandmarks /\ [][NextLandmarks]_vars

(***************************************************************************)
(* Vocabulary of the stabilizer's properties                               *)
(***************************************************************************)
\* the last k elements of s
LastN(s, k) == SubSeq(s, Len(s) - k + 1, Len(s))

LabelsIn(buf) == {buf[i] : i \in DOMAIN buf}

\* the highest count of a label in buf
MaxCount(buf) ==
    IF buf = <<>> THEN 0
    ELSE LET counts == {CountOf(buf, l) : l \in LabelsIn(buf)}
         IN  CHOOSE c \in counts : \A d \in counts : d <= c

\* the labels that share the highest count
Tied(buf) == {l \in LabelsIn(buf) : CountOf(buf, l) = MaxCount(buf)}

FirstIndex(buf, l) ==
    CHOOSE i \in DOMAIN buf : buf[i] = l /\ \A j \in 1..(i - 1) : buf[j] # l

LastIndex(buf, l) ==
    CHOOSE i \in DOMAIN buf : buf[i] = l /\ \A j \in (i + 1)..Len(buf) : buf[j] # l

\* The tied label that reaches the winning count first in a scan from
\* oldest to newest: a tied label reaches that count at its last occurrence.
ReachesCountFirst(buf) ==
    CHOOSE l \in Tied(buf) :
        \A l2 \in Tied(buf) : LastIndex(buf, l) <= LastIndex(buf, l2)

(***************************************************************************)
(* Claims about the stabilizer (checked under SpecStab)                    *)
(***************************************************************************)
\* C1: after k pushes on a fresh stabilizer of capacity n the history is
\* exactly the last min(k, n) raw labels in arrival order; its length never
\* exceeds n, so once full each push evicts the oldest label and appends
\* the newest at the end.
C1_HistoryIsLastLabels ==
    /\ Len(buffer) <= cap
    /\ buffer = LastN(pushed, Min(Len(pushed), cap))

\* C1 witness: a full window from which the oldest labels have been evicted.
C1_Witness ==
    /\ cap = DefaultCapacity
    /\ Len(pushed) = cap + 2
    /\ pushed[1] = "rock" /\ pushed[2] = "rock"
    /\ Len(buffer) = cap
    /\ "rock" \notin LabelsIn(buffer)
    /\ buffer[cap] = "unknown"

\* C2: every push returns a mode of the window as it stands after the raw
\* label was appended (and the oldest evicted): the returned label occurs in
\* the window, whose newest label is the one pushed, and no label occurs in
\* it strictly more often.
C2_ReturnsAMode ==
    pushed # <<>> =>
        /\ buffer[Len(buffer)] = pushed[Len(pushed)]
        /\ gesture \in LabelsIn(buffer)
        /\ \A l \in Labels : CountOf(buffer, l) <= CountOf(buffer, gesture)

\* C2 witness: a full window of three different labels whose mode is
\* neither its oldest nor its newest label.
C2_Witness ==
    /\ cap = DefaultCapacity
    /\ Len(pushed) > cap
    /\ Cardinality(LabelsIn(buffer)) = 3
    /\ gesture # buffer[1]
    /\ gesture # buffer[Len(buffer)]
    /\ CountOf(buffer, gesture) = 3

\* C3: when several labels tie for the highest count, push returns the tied
\* label whose first occurrence in the window is earliest; pushing a, b, a, b
\* into a capacity-4 stabilizer ends with output a.
C3_TieGoesToEarliestFirstOccurrence ==
    pushed # <<>> =>
        /\ gesture \in Tied(buffer)
        /\ \A l \in Tied(buffer) :
              FirstIndex(buffer, gesture) <= FirstIndex(buffer, l)
        /\ ( /\ cap = 4
             /\ Len(pushed) = 4
             /\ pushed[1] = pushed[3]
             /\ pushed[2] = pushed[4]
             /\ pushed[1] # pushed[2] ) => gesture = pushed[1]

\* C3 witness: a, b, a, b pushed into a capacity-4 stabilizer, output a.
C3_Witness ==
    /\ cap = 4
    /\ pushed = <<"rock", "paper", "rock", "paper">>
    /\ Tied(buffer) = {"rock", "paper"}
    /\ gesture = "rock"

C5_CapacityRepeatsWin ==
    \A L \in RawLabels :
        ( /\ Len(pushed) >= cap
          /\ \A i \in (Len(pushed) - cap + 1)..Len(pushed) : pushed[i] = L )
        => gesture = L

\* C5 witness: a history of four "paper" (the output being "paper"), then
\* five "rock" pushed into the capacity-5 stabilizer: the output is "rock".
C5_Witness ==
    /\ cap = DefaultCapacity
    /\ Len(pushed) = cap + 4
    /\ \A i \in 1..4 : pushed[i] = "paper"
    /\ \A i \in 5..(cap + 4) : pushed[i] = "rock"
    /\ buffer = [i \in 1..cap |-> "rock"]
    /\ gesture = "rock"

(***************************************************************************)
(* Vocabulary of the classifier's properties                               *)
(***************************************************************************)
Classified == label # ""

AllFourExtended(x) == x.mI > 7 /\ x.mM > 7 /\ x.mR > 7 /\ x.mP > 7

NumberExtended(x) == Cardinality({f \in {"mI", "mM", "mR", "mP"} : x[f] > 7})

\* the scissors predicate: index and middle extended, ring and pinky not
\* extended and definitely bent, gap <= 0.28, direction cosine >= 0.80
ScissorsShape(x) ==
    /\ x.mI > 7 /\ x.mM > 7
    /\ x.mR < 3 /\ x.mP < 3
    /\ x.gapIM <= 28
    /\ x.cosIM >= 80

(***************************************************************************)
(* Claims about the classifier (checked under SpecClassify)                *)
(***************************************************************************)
\* C6: for every metrics bundle the classifier returns exactly one label,
\* one of rock, paper, scissors, lizard, spock, unknown; no input path
\* ends anywhere else.
C6_LabelInClosedSet ==
    Classified => label \in Labels /\ labelDoc \in Labels

\* C6 witness: three fingers extended, where no rule matches and the
\* classifier ends in its default.
C6_Witness ==
    /\ Classified
    /\ NumberExtended(m) = 3
    /\ label = "unknown"
    /\ labelDoc = "unknown"

\* C7: first match wins with scissors first: whenever the scissors
\* predicate holds the classifier returns scissors, also when the same
\* metrics satisfy the soft lizard tie-break or any other later rule.
C7_ScissorsFirst ==
    (Classified /\ ScissorsShape(m)) =>
        label = "scissors" /\ labelDoc = "scissors"

\* C7 witness: index and middle extended, ring and pinky bent, gap 0.10,
\* cosine 0.95 and the thumb outward, so that the lizard tie-break (at most
\* two fingers extended, thumb outward) holds as well: scissors.
C7_Witness ==
    /\ Classified
    /\ ScissorsShape(m)
    /\ m.gapIM = 10 /\ m.cosIM = 95
    /\ NumberExtended(m) <= 2 /\ m.thumb > 34
    /\ LizardTieBreak(m) /\ DocLizardTieBreak(m)
    /\ label = "scissors"
    /\ labelDoc = "scissors"

\* C8: the classifier returns rock if and only if at most one of the four
\* fingers is extended and the thumb is not outward under the soft
\* threshold (thumb distance <= 0.31); zero fingers extended with thumb
\* distance 0.15 gives rock.
C8_RockIffSoftThumb ==
    Classified =>
        /\ label = "rock" <=> (NumberExtended(m) <= 1 /\ m.thumb <= 31)
        /\ (NumberExtended(m) = 0 /\ m.thumb = 15) => label = "rock"

\* C9: whenever all four fingers are extended, the spread ratio exceeds the
\* spock ratio threshold, both outer gaps are below the tight-pairing
\* threshold, the middle-ring gap exceeds its floor and the thumb is outward
\* under the hard threshold, the classifier returns spock (each copy with
\* its own thresholds); gaps 0.15 / 0.35 / 0.15 with thumb 0.40 give spock.
C9_StrongVIsSpock ==
    Classified =>
        /\ ( /\ AllFourExtended(m)
             /\ spockRatioAbove(m, T.spockRatio)
             /\ m.gapIM < T.pairTight /\ m.gapRP < T.pairTight
             /\ m.gapMR > T.spockGapMR
             /\ m.thumb > 34 ) => label = "spock"
        /\ ( /\ AllFourExtended(m)
             /\ spockRatioAbove(m, TDoc.spockRatio)
             /\ m.gapIM < TDoc.pairTight /\ m.gapRP < TDoc.pairTight
             /\ m.gapMR > TDoc.spockGapMR
             /\ m.thumb > 33 ) => labelDoc = "spock"
        /\ ( /\ AllFourExtended(m)
             /\ m.gapIM = 15 /\ m.gapMR = 35 /\ m.gapRP = 15
             /\ m.thumb = 40 ) => label = "spock" /\ labelDoc = "spock"

\* C9 witness: four fingers extended, gaps 0.15 / 0.35 / 0.15, thumb 0.40.
C9_Witness ==
    /\ Classified
    /\ AllFourExtended(m)
    /\ m.gapIM = 15 /\ m.gapMR = 35 /\ m.gapRP = 15
    /\ m.thumb = 40
    /\ label = "spock"
    /\ labelDoc = "spock"

\* C10: whenever all four fingers are extended, the thumb is tucked (thumb
\* distance < 0.28), the spread ratio is at or below the paper ceiling, cv
\* is below the paper ceiling and each gap is below 0.30, the classifier
\* returns paper and no spock rule matches (each copy with its own
\* ceilings); three gaps of 0.20 with thumb 0.20 give paper.
C10_FlatHandIsPaper ==
    Classified =>
        /\ ( /\ AllFourExtended(m)
             /\ m.thumb < 28
             /\ ~spockRatioAbove(m, T.spockRatio)
             /\ cvBelow(m, T.paperCV)
             /\ m.gapIM < 30 /\ m.gapMR < 30 /\ m.gapRP < 30 )
            => label = "paper" /\ ~SpockRule(m)
        /\ ( /\ AllFourExtended(m)
             /\ m.thumb < 28
             /\ ~spockRatioAbove(m, 135)
             /\ cvBelow(m, TDoc.paperCV)
             /\ m.gapIM < 30 /\ m.gapMR < 30 /\ m.gapRP < 30 )
            => labelDoc = "paper" /\ ~DocSpockRule(m) /\ ~DocSpockSoftRule(m)
        /\ ( /\ AllFourExtended(m)
             /\ m.gapIM = 20 /\ m.gapMR = 20 /\ m.gapRP = 20
             /\ m.thumb = 20 ) => label = "paper" /\ labelDoc = "paper"

\* C10 witness: four fingers extended, three gaps of 0.20, thumb 0.20.
C10_Witness ==
    /\ Classified
    /\ AllFourExtended(m)
    /\ m.gapIM = 20 /\ m.gapMR = 20 /\ m.gapRP = 20
    /\ m.thumb = 20
    /\ label = "paper"
    /\ labelDoc = "paper"

\* The decision list of DEPLOYMENT.md with its primary spock rule removed.
DocWithoutPrimarySpock(x) ==
    IF DocScissorsRule(x) THEN "scissors"
    ELSE IF DocSpockSoftRule(x) THEN "spock"
    ELSE IF DocPaperRule(x) THEN "paper"
    ELSE IF DocPaperLooseRule(x) THEN "paper"
    ELSE IF DocRockRule(x) THEN "rock"
    ELSE IF DocLizardRule(x) THEN "lizard"
    ELSE IF DocSpockTieBreak(x) THEN "spock"
    ELSE IF DocLizardTieBreak(x) THEN "lizard"
    ELSE "unknown"

\* C14: the soft spock rule is a relaxation of the primary spock rule:
\* every bundle that satisfies the primary predicate satisfies the soft
\* one, so removing the primary rule changes no label.
C14_SoftSpockRelaxesPrimary ==
    Classified =>
        /\ DocSpockRule(m) => DocSpockSoftRule(m)
        /\ DocWithoutPrimarySpock(m) = labelDoc

\* C14 witness: a bundle the primary spock rule accepts, with the outer
\* gaps between the soft rule's threshold less 0.04 and the primary one's.
C14_Witness ==
    /\ Classified
    /\ DocSpockRule(m)
    /\ m.gapIM = 20 /\ m.gapRP = 20
    /\ labelDoc = "spock"

\* C15 as stated: with four fingers extended and the thumb along the palm,
\* a spread ratio that passes the strict paper ceiling passes the loose
\* fallback's ceiling.
C15_LooseCeilingAboveStrict ==
    ( /\ Classified
      /\ AllFourExtended(m)
      /\ m.thumb < 28
      /\ DocPaperRatioOK(m) ) => DocPaperLooseRatioOK(m)

\* C15 amended: the loose fallback's ratio ceiling (1.25) is below the
\* strict rule's (1.35): with four fingers extended and the thumb along the
\* palm, a spread ratio that passes the loose ceiling passes the strict one
\* (and not the other way round), and a bundle above the loose ceiling is
\* paper only by the strict rule.
C15_LooseCeilingBelowStrict ==
    ( /\ Classified
      /\ AllFourExtended(m)
      /\ m.thumb < 28 ) =>
        /\ DocPaperLooseRatioOK(m) => DocPaperRatioOK(m)
        /\ (labelDoc = "paper" /\ ~DocPaperLooseRatioOK(m)) => DocPaperRule(m)

\* C15 witness: gaps 0.15 / 0.20 / 0.15 (spread ratio 1.33) with the thumb
\* along the palm: under the strict ceiling, over the loose one.
C15_Witness ==
    /\ Classified
    /\ AllFourExtended(m)
    /\ m.thumb < 28
    /\ m.gapIM = 15 /\ m.gapMR = 20 /\ m.gapRP = 15
    /\ DocPaperRatioOK(m)
    /\ ~DocPaperLooseRatioOK(m)
    /\ labelDoc = "paper"

\* C16: for every bundle in which exactly three of the four fingers are
\* extended the classifier returns unknown, whatever the gaps, the thumb
\* distance and the direction cosine are.
C16_ThreeExtendedIsUnknown ==
    (Classified /\ NumberExtended(m) = 3) =>
        label = "unknown" /\ labelDoc = "unknown"

\* C16 witness: index, middle and ring extended, the pinky bent, the thumb
\* outward and a wide middle-ring gap.
C16_Witness ==
    /\ Classified
    /\ m.mI > 7 /\ m.mM > 7 /\ m.mR > 7 /\ m.mP < 3
    /\ m.thumb = 40
    /\ m.gapMR = 35
    /\ label = "unknown"
    /\ labelDoc = "unknown"

(***************************************************************************)
(* Vocabulary of the component's properties                                *)
(***************************************************************************)
\* the step taken is a hand frame's push of the label it was given
HandFramePush ==
    /\ loopPc = "detect"
    /\ hand'
    /\ buffer' = BufferAfter(buffer, label', cap)
    /\ gesture' = ModeOf(buffer')

\* the changes of the countdown display
CountdownOrder ==
    {<<"null", "3">>, <<"3", "2">>, <<"2", "1">>, <<"1", "Shoot!">>,
     <<"Shoot!", "null">>}

\* the step timers of a countdown under way: the steps not yet shown
StepsLeft == {{steps[i] : i \in k..Len(steps)} : k \in 1..(Len(steps) + 1)}

Counters == {"player", "computer", "ties"}

ScoreSum == score.player + score.computer + score.ties

\* C13: the stabilizer's history and the displayed gesture change in one way
\* only, the push of a frame with a hand in it: a frame without a hand, the
\* debug toggle, a round's start and steps, and a repeated camera start leave
\* both as they were.
C13_HistoryChangedOnlyByPush ==
    [][(buffer' # buffer \/ gesture' # gesture) => HandFramePush]_vars

C13_Witness ==
    /\ ~hand /\ loopPc = "raf"
    /\ showDebug
    /\ accepted > 0
    /\ Len(buffer) = cap
    /\ gesture = "rock"

\* C17: the pending step timers are the steps one countdown has left, and
\* there are some exactly while isCountingDown; startRound is accepted only
\* when the camera runs and no countdown is under way, and an accepted one
\* leaves exactly its own four timers pending; the display goes through 3,
\* 2, 1, Shoot! in order; a round is decided only at Shoot!, which ends the
\* countdown, so that every accepted round but the one under way has been
\* decided once; and, the window firing its timers, the round under way is
\* decided.
C17_OneCountdownResolvedOnce ==
    /\ [](/\ (pendingTimers \cap StepTimers) \in StepsLeft
          /\ isCountingDown <=> (pendingTimers \cap StepTimers # {})
          /\ accepted = resolved + (IF isCountingDown THEN 1 ELSE 0))
    /\ [][/\ accepted' # accepted =>
               /\ running /\ ~isCountingDown
               /\ accepted' = accepted + 1
               /\ pendingTimers' = StepTimers
               /\ isCountingDown'
          /\ countdown' # countdown => <<countdown, countdown'>> \in CountdownOrder
          /\ resolved' # resolved =>
               /\ resolved' = resolved + 1
               /\ countdown = "1" /\ countdown' = "Shoot!"
               /\ isCountingDown /\ ~isCountingDown']_vars
    /\ \A n \in 1..MaxRounds : (accepted = n) ~> (resolved = n)

C17_Witness ==
    /\ accepted = 2 /\ resolved = 1
    /\ isCountingDown
    /\ countdown = "2"
    /\ pendingTimers = {"1", "Shoot!"}

\* C18: the three counters add up to the number of rounds decided on a
\* recognized gesture; deciding such a round adds 1 to exactly one counter,
\* and deciding a round on an empty or unknown gesture leaves the counters
\* alone and the outcome "none".
C18_ScoreCountsRecognizedRounds ==
    /\ [](ScoreSum = recognized)
    /\ [][resolved' # resolved =>
            IF isGesture(gestureRef)
            THEN \E k \in Counters : score' = [score EXCEPT ![k] = @ + 1]
            ELSE score' = score /\ roundOutcome' = "none"]_vars

C18_Witness ==
    /\ resolved = 2 /\ recognized = 1
    /\ score.ties = 1
    /\ playerGesture = "unknown"

\* C19: decideOutcome is a tie exactly for equal gestures; for distinct
\* gestures it names the player exactly when the swapped call names the
\* computer; every gesture beats exactly two others; a decided round shows
\* decideOutcome of the two gestures it shows.
C19_DecideOutcomeRules ==
    /\ \A a, b \in GESTURES : (decideOutcome(a, b) = "tie") <=> (a = b)
    /\ \A a, b \in GESTURES :
          a # b => ((decideOutcome(a, b) = "player") <=>
                    (decideOutcome(b, a) = "computer"))
    /\ \A a \in GESTURES :
          Cardinality({b \in GESTURES : decideOutcome(a, b) = "player"}) = 2
    /\ isGesture(playerGesture) =>
          roundOutcome = decideOutcome(playerGesture, computerGesture)

C19_Witness ==
    /\ playerGesture = "rock"
    /\ computerGesture = "lizard"
    /\ roundOutcome = "player"
    /\ score.player = 1

(***************************************************************************)
(* Vocabulary of the landmark properties                                   *)
(***************************************************************************)
\* neither side of the bounding box is under the floor
AboveFloor(lm) == boxWidth(lm) >= Eps /\ boxHeight(lm) >= Eps

\* all landmarks on one point
Coincident(lm) == boxWidth(lm) = 0 /\ boxHeight(lm) = 0

\* all landmarks on one point or on one horizontal or vertical line
Degenerate(lm) == boxWidth(lm) = 0 \/ boxHeight(lm) = 0

\* the moved hand has been classified
Moved == label # ""

\* the moved hand gets the metrics and the label of the hand as first seen
SameResult ==
    /\ metricsOn(landmarks) = metricsOn(landmarks0)
    /\ label = classifySignOn(landmarks0)

\* the measurements that are kept as fractions
FractionFields == {"gapIM", "gapMR", "gapRP", "cv", "thumbToIndexMCP"}

\* C11 as stated: a hand scaled by any factor and moved anywhere gets the
\* same metrics, field by field, and the same label.
C11_ScaleAndShiftInvariant == Moved => SameResult

\* C11: a moved hand gets the same metrics and the same label; a scaled
\* hand does when neither side of its bounding box is under the floor 1e-6,
\* before and after the scaling.
C11_InvariantAboveFloor ==
    (Moved /\ (factor = 1 \/ (AboveFloor(landmarks0) /\ AboveFloor(landmarks))))
        => SameResult

C11_Witness ==
    /\ Moved
    /\ factor > 1
    /\ landmarks[WRIST][1] # 0 /\ landmarks[WRIST][2] # 0
    /\ AboveFloor(landmarks0)
    /\ label = "spock"

\* C12: for landmarks on one point or on one horizontal or vertical line,
\* no measurement divides by zero: the scale is at least the floor on both
\* sides, the spread ratio of a closed pair is taken over the floor, a
\* direction of length 0 gives the cosine 0, cv is 1 when the mean gap is
\* 0, the label is one of the six, and it is rock for one point.
C12_DegenerateHandIsClassified ==
    (Moved /\ Degenerate(landmarks)) =>
        /\ scaleSquared(landmarks) >= 2 * Eps * Eps
        /\ \A f \in FractionFields : metricsOn(landmarks)[f][2] # 0
        /\ metricsOn(landmarks).spockRatio[2][2] # 0
        /\ ~pairOpen(landmarks) => metricsOn(landmarks).spockRatio[1] = "floored"
        /\ (lenSquared(landmarks, "i") = 0 \/ lenSquared(landmarks, "m") = 0)
              => metricsOn(landmarks).cosIM = <<0, <<0, 1>>>>
        /\ tipSum(landmarks) = 0 => metricsOn(landmarks).cv = <<1, 1>>
        /\ label \in Labels
        /\ Coincident(landmarks) =>
              /\ label = "rock"
              /\ \A f \in FractionFields \ {"cv"} : metricsOn(landmarks)[f] = <<0, 1>>
              /\ metricsOn(landmarks).extendedCount = 0

C12_Witness ==
    /\ Moved
    /\ Coincident(landmarks)
    /\ landmarks[WRIST] # <<0, 0>>
    /\ label = "rock"

====
